---- MODULE Spec2Model ----
(***************************************************************************)
(* Product catalog server actions (getProducts, deleteProduct,             *)
(* editProduct, addProduct) over the tables products,                      *)
(* product_categories, reviews and comments.                               *)
(*                                                                         *)
(* JavaScript strings are sequences of one-character strings, so that      *)
(* split("-"), Number(...) and toString() are computed, not assumed.       *)
(***************************************************************************)
EXTENDS Integers, Sequences, FiniteSets, TLC

VARIABLES
    build,                \* which of the two source files is deployed
    products,             \* table products: a set of rows
    product_categories,   \* table product_categories: set of [product_id, category_id]
    reviews,              \* table reviews: set of [id, product_id]
    comments,             \* table comments: set of [id, product_id]
    foreign_key_checks,   \* the session variable foreign_key_checks (0 or 1)
    nextId,               \* AUTO_INCREMENT counter of products.id
    ret                   \* the last call: its arguments, what it returned, what it saw

vars == <<build, products, product_categories, reviews, comments,
          foreign_key_checks, nextId, ret>>

-----------------------------------------------------------------------------
(* Bounds of the model *)

MaxProducts == 2      \* product ids are 1..MaxProducts
MaxPageSize == 2      \* pageSize ranges over 1..MaxPageSize
MaxPageNo == 2        \* pageNo ranges over 1..MaxPageNo
MaxReviews == 1       \* review / comment rows seeded per product

ProductIds == 1..MaxProducts
CategoryIds == {1, 2}

-----------------------------------------------------------------------------
(* JavaScript values *)

JUndef == [t |-> "undefined", n |-> 0, s |-> <<>>]
JNaN == [t |-> "NaN", n |-> 0, s |-> <<>>]
JNum(n) == [t |-> "number", n |-> n, s |-> <<>>]
JStr(s) == [t |-> "string", n |-> 0, s |-> s]

Digits == <<"0", "1", "2", "3", "4", "5", "6", "7", "8", "9">>

DigitVal(c) == (CHOOSE i \in 1..10 : Digits[i] = c) - 1

IsDigit(c) == \E i \in 1..10 : Digits[i] = c

\* String.prototype.split with a one-character separator.
RECURSIVE SplitFrom(_, _, _, _)
SplitFrom(s, sep, i, cur) ==
    IF i > Len(s) THEN <<cur>>
    ELSE IF s[i] = sep THEN <<cur>> \o SplitFrom(s, sep, i + 1, <<>>)
    ELSE SplitFrom(s, sep, i + 1, Append(cur, s[i]))

split(s, sep) == SplitFrom(s, sep, 1, <<>>)

\* Destructuring [a, b] = parts: a missing element is undefined.
At(parts, i) == IF i <= Len(parts) THEN JStr(parts[i]) ELSE JUndef

RECURSIVE DecimalValue(_, _)
DecimalValue(s, acc) ==
    IF s = <<>> THEN acc ELSE DecimalValue(Tail(s), 10 * acc + DigitVal(Head(s)))

\* Number(x): undefined is NaN, the empty string is 0, a string of digits is
\* its decimal value, any other string of the alphabet is NaN.
Number(x) ==
    CASE x.t = "number" -> x
      [] x.t = "NaN" -> x
      [] x.t = "undefined" -> JNaN
      [] x.t = "string" ->
            IF \A i \in 1..Len(x.s) : IsDigit(x.s[i])
            THEN JNum(DecimalValue(x.s, 0))
            ELSE JNaN

isNaN(x) == Number(x).t = "NaN"

RECURSIVE DigitsOf(_)
DigitsOf(n) ==
    IF n < 10 THEN <<Digits[n + 1]>> ELSE Append(DigitsOf(n \div 10), Digits[(n % 10) + 1])

\* x.toString() of a number or a string (undefined has no toString: the caller
\* checks Throws first).
toString(x) ==
    CASE x.t = "number" -> JStr(DigitsOf(x.n))
      [] x.t = "string" -> x
      [] OTHER -> JStr(<<"N", "a", "N">>)

\* JavaScript truthiness of a scalar.
Truthy(x) ==
    CASE x.t = "undefined" -> FALSE
      [] x.t = "NaN" -> FALSE
      [] x.t = "number" -> x.n # 0
      [] x.t = "string" -> x.s # <<>>

Lower(c) ==
    CASE c = "A" -> "a" [] c = "S" -> "s" [] c = "C" -> "c"
      [] c = "D" -> "d" [] c = "E" -> "e" [] OTHER -> c

toLowerCase(s) == [i \in 1..Len(s) |-> Lower(s[i])]

includes(list, x) == x.t = "string" /\ \E i \in 1..Len(list) : list[i] = x.s

-----------------------------------------------------------------------------
(* SQL *)

NULL == 0

\* FIND_IN_SET(needle, strlist) > 0 : strlist is a comma-separated list.
FIND_IN_SET(needle, strlist) ==
    LET items == split(strlist, ",")
    IN strlist # <<>> /\ \E i \in 1..Len(items) : items[i] = needle

\* A membership test of the brand list column for one brand id
\* (FIND_IN_SET in productActions.ts, JSON_CONTAINS in part_000).
BrandListContains(brands, brandId) == \E i \in 1..Len(brands) : brands[i] = brandId

Atom(k, n, s, l) == [k |-> k, n |-> n, s |-> s, l |-> l]

\* One comparison of the WHERE clause on one row of the (joined) FROM clause.
\* A comparison with NULL is not true.
EvalAtom(a, jr) ==
    CASE a.k = "brand" -> BrandListContains(jr.p.brands, a.n)
      [] a.k = "category_in" ->
            jr.category_id # NULL /\ \E i \in 1..Len(a.l) : a.l[i] = jr.category_id
      [] a.k = "gender" -> jr.p.gender = a.s
      [] a.k = "price_le" -> jr.p.price <= a.n
      [] a.k = "discount_ge" -> jr.p.discount >= a.n
      [] a.k = "discount_le" -> jr.p.discount <= a.n
      [] a.k = "occasion" -> FIND_IN_SET(a.s, jr.p.occasion)

\* The WHERE clause is the text  t1 and t2 and ... and tn  where each ti is
\* what one .where() call appended: a single comparison, or a raw fragment
\* a1 OR a2 OR ... , wrapped in parentheses or not. SQL gives AND precedence
\* over OR, so the text is a disjunction of the AND-runs between the OR's
\* that stand outside parentheses. done: some finished run is true; cur: the
\* run being read is true so far.
RECURSIVE EvalTerms(_, _, _, _, _)
EvalTerms(terms, jr, i, done, cur) ==
    IF i > Len(terms) THEN done \/ cur
    ELSE LET t == terms[i]
             n == Len(t.atoms)
             any == \E j \in 1..n : EvalAtom(t.atoms[j], jr)
         IN IF t.parens \/ n = 1
            THEN EvalTerms(terms, jr, i + 1, done, cur /\ any)
            ELSE EvalTerms(terms, jr, i + 1,
                           done \/ (cur /\ EvalAtom(t.atoms[1], jr))
                                \/ (\E j \in 2..(n - 1) : EvalAtom(t.atoms[j], jr)),
                           EvalAtom(t.atoms[n], jr))

EvalWhere(terms, jr) == EvalTerms(terms, jr, 1, FALSE, TRUE)

-----------------------------------------------------------------------------
(* getProducts: the query builder *)

S_price == <<"p", "r", "i", "c", "e">>
S_created_at == <<"c", "r", "e", "a", "t", "e", "d", "_", "a", "t">>
S_rating == <<"r", "a", "t", "i", "n", "g">>
S_asc == <<"a", "s", "c">>
S_desc == <<"d", "e", "s", "c">>

validColumns == <<S_price, S_created_at, S_rating>>
validOrders == <<S_asc, S_desc>>

NoOrder == <<>>

brandConditions(filters) ==
    [i \in 1..Len(filters.brandIds) |-> Atom("brand", filters.brandIds[i], <<>>, <<>>)]

occasionConditions(filters) ==
    [i \in 1..Len(filters.occasions) |-> Atom("occasion", 0, filters.occasions[i], <<>>)]

\* part_000 wraps the brand disjunction in parentheses, productActions.ts
\* does not.
BrandWhere(b, filters) ==
    IF Len(filters.brandIds) > 0
    THEN <<[atoms |-> brandConditions(filters), parens |-> (b = "part_000")]>>
    ELSE <<>>

CategoryWhere(filters) ==
    IF Len(filters.categoryIds) > 0
    THEN <<[atoms |-> <<Atom("category_in", 0, <<>>, filters.categoryIds)>>,
            parens |-> FALSE]>>
    ELSE <<>>

\* productActions.ts: leftJoin; part_000: innerJoin.
CategoryJoin(b, filters) ==
    IF Len(filters.categoryIds) > 0
    THEN (IF b = "part_000" THEN "inner" ELSE "left")
    ELSE "none"

GenderWhere(filters) ==
    IF Truthy(filters.gender)
    THEN <<[atoms |-> <<Atom("gender", 0, filters.gender.s, <<>>)>>, parens |-> FALSE]>>
    ELSE <<>>

PriceWhere(filters) ==
    IF Truthy(filters.priceRangeTo)
    THEN <<[atoms |-> <<Atom("price_le", filters.priceRangeTo.n, <<>>, <<>>)>>,
            parens |-> FALSE]>>
    ELSE <<>>

DiscountWhere(filters) ==
    IF Truthy(filters.discount)
    THEN LET parts == split(filters.discount.s, "-")
             minDiscount == Number(At(parts, 1))
             maxDiscount == Number(At(parts, 2))
         IN IF ~isNaN(minDiscount) /\ ~isNaN(maxDiscount)
            THEN <<[atoms |-> <<Atom("discount_ge", minDiscount.n, <<>>, <<>>)>>,
                    parens |-> FALSE],
                   [atoms |-> <<Atom("discount_le", maxDiscount.n, <<>>, <<>>)>>,
                    parens |-> FALSE]>>
            ELSE <<>>
    ELSE <<>>

\* The occasion disjunction is appended as it is, without parentheses, in
\* both files.
OccasionWhere(filters) ==
    IF Len(filters.occasions) > 0
    THEN <<[atoms |-> occasionConditions(filters), parens |-> FALSE]>>
    ELSE <<>>

\* Mutant: the direction is lower-cased before it is looked up.
SortingIgnoringCase(filters) ==
    IF Truthy(filters.sortBy)
    THEN LET parts == split(filters.sortBy.s, "-")
             column == At(parts, 1)
             order == IF Len(parts) >= 2 THEN JStr(toLowerCase(parts[2])) ELSE JUndef
         IN IF includes(validColumns, column) /\ includes(validOrders, order)
            THEN <<column.s, order.s>>
            ELSE NoOrder
    ELSE NoOrder

Sorting(filters) ==
    IF Truthy(filters.sortBy)
    THEN LET parts == split(filters.sortBy.s, "-")
             column == At(parts, 1)
             order == At(parts, 2)
         IN IF includes(validColumns, column) /\ includes(validOrders, order)
            THEN <<column.s, order.s>>
            ELSE NoOrder
    ELSE NoOrder

baseQuery(b, filters) ==
    [join |-> CategoryJoin(b, filters),
     where |-> BrandWhere(b, filters) \o CategoryWhere(filters) \o GenderWhere(filters)
               \o PriceWhere(filters) \o DiscountWhere(filters) \o OccasionWhere(filters),
     orderBy |-> Sorting(filters)]

-----------------------------------------------------------------------------
(* getProducts: running the query *)

LinksOf(p) == {pc \in product_categories : pc.product_id = p.id}

\* The rows of the FROM clause.
FromRows(q) ==
    LET plain == {[p |-> p, category_id |-> NULL] : p \in products}
        inner == {[p |-> p, category_id |-> c] :
                    <<p, c>> \in {<<p, c>> \in products \X CategoryIds :
                                    [product_id |-> p.id, category_id |-> c]
                                        \in product_categories}}
    IN CASE q.join = "none" -> plain
         [] q.join = "inner" -> inner
         [] q.join = "left" -> inner \cup {jr \in plain : LinksOf(jr.p) = {}}

\* The rows the base query selects (one per row of the join that passes).
Filtered(q) == {jr \in FromRows(q) : EvalWhere(q.where, jr)}

\* Mutant: COUNT(*) in place of COUNT(DISTINCT filtered.id).
CountRows(rows) == Cardinality(rows)

\* SELECT COUNT(DISTINCT filtered.id) FROM (baseQuery) AS filtered
CountDistinctId(rows) == Cardinality({jr.p.id : jr \in rows})

ColumnOf(p, column) ==
    CASE column = S_price -> p.price
      [] column = S_created_at -> p.created_at
      [] column = S_rating -> p.rating

\* A sequence respects ORDER BY column order.
Ordered(seq, orderBy) ==
    orderBy = NoOrder \/
    \A i, j \in 1..Len(seq) :
        i < j => IF orderBy[2] = S_asc
                 THEN ColumnOf(seq[i], orderBy[1]) <= ColumnOf(seq[j], orderBy[1])
                 ELSE ColumnOf(seq[i], orderBy[1]) >= ColumnOf(seq[j], orderBy[1])

\* Every order in which the store may hand out the elements of a set.
RECURSIVE Orderings(_)
Orderings(S) ==
    IF S = {} THEN {<<>>}
    ELSE UNION {{<<x>> \o rest : rest \in Orderings(S \ {x})} : x \in S}

\* Mutant: the page query without .distinct(): one row per row of the join.
SelectAll(q, rows) ==
    {seq \in {[i \in 1..Len(o) |-> o[i].p] : o \in Orderings(rows)} :
        Ordered(seq, q.orderBy)}

\* baseQuery.distinct(): the selected columns are those of products alone,
\* DISTINCT keeps one copy of each; the order is the one asked for, and
\* any order where none was asked for.
SelectDistinct(q, rows) ==
    {seq \in Orderings({jr.p : jr \in rows}) : Ordered(seq, q.orderBy)}

\* .offset(offset).limit(limit)
OffsetLimit(seq, offset, limit) ==
    LET n == IF Len(seq) - offset < 0 THEN 0
             ELSE IF Len(seq) - offset < limit THEN Len(seq) - offset ELSE limit
    IN [i \in 1..n |-> seq[offset + i]]

\* Math.ceil(a / b) for a >= 0, b > 0
ceil(a, b) == IF a % b = 0 THEN a \div b ELSE (a \div b) + 1

\* countResult and the rows the page query runs over, for one filter
\* configuration: both are taken from the same baseQuery.
RunQueries(filters) ==
    LET q == baseQuery(build, filters)
        rows == Filtered(q)
    IN [totalCount |-> CountDistinctId(rows), distinct |-> SelectDistinct(q, rows)]

\* run is RunQueries(filters): the callers evaluate it once for all the
\* pages they ask for.
getProducts(pageNo, pageSize, filters, run) ==
    LET totalCount == run.totalCount
        lastPage == ceil(totalCount, pageSize)
    IN /\ \E all \in run.distinct :
            LET page == OffsetLimit(all, (pageNo - 1) * pageSize, pageSize)
            IN ret' = [op |-> "getProducts", pageNo |-> pageNo, pageSize |-> pageSize,
                       filters |-> filters, products |-> page,
                       count |-> totalCount, lastPage |-> lastPage,
                       numOfResultsOnCurPage |-> Len(page)]
       /\ UNCHANGED <<build, products, product_categories, reviews, comments,
                      foreign_key_checks, nextId>>

-----------------------------------------------------------------------------
(* The catalogs and the filter configurations getProducts is run on *)

S_men == <<"m", "e", "n">>
S_women == <<"w", "o", "m", "e", "n">>

\* The stored columns of the sample product with a given id.
SampleRow(i) ==
    [id |-> i,
     name |-> <<"n">>,
     brands |-> CASE i % 4 = 1 -> <<3>> [] i % 4 = 2 -> <<7>>
                  [] i % 4 = 3 -> <<5>> [] OTHER -> <<3, 7>>,
     occasion |-> CASE i % 4 = 1 -> <<"a">> [] i % 4 = 2 -> <<"b">>
                    [] i % 4 = 3 -> <<"a", ",", "b">> [] OTHER -> <<"c">>,
     gender |-> IF i % 2 = 1 THEN S_men ELSE S_women,
     price |-> IF i % 2 = 1 THEN 20 ELSE 10,
     old_price |-> IF i % 2 = 1 THEN 20 ELSE 10,
     discount |-> CASE i % 4 = 1 -> 5 [] i % 4 = 2 -> 50
                    [] i % 4 = 3 -> 10 [] OTHER -> 0,
     rating |-> IF i % 4 = 2 THEN 2 ELSE 4,
     created_at |-> i]

BrandIdsInputs == {<<>>, <<3, 7>>}
CategoryIdsInputs == {<<>>, <<1>>, <<1, 2>>}
GenderInputs == {JUndef, JStr(S_men)}
PriceRangeToInputs == {JUndef, JNum(10)}
OccasionsInputs == {<<>>, <<<<"a">>, <<"b">>>>}

S_5_10 == <<"5", "-", "1", "0">>

DiscountInputs ==
    {JUndef,
     JStr(S_5_10),
     JStr(<<"a", "b", "c", "-", "1", "0">>),
     JStr(<<"-", "1", "0">>),
     JStr(<<"1", "0", "-">>),
     JStr(<<"1", "0">>)}

SortByInputs ==
    {JUndef,
     JStr(S_price \o <<"-">> \o S_asc),
     JStr(S_price \o <<"-">> \o S_desc),
     JStr(S_rating \o <<"-">> \o S_desc),
     JStr(S_created_at \o <<"-">> \o S_asc),
     JStr(S_price \o <<"-", "A", "S", "C">>),
     JStr(<<"c", "o", "l", "o", "r", "-">> \o S_asc),
     JStr(S_rating \o <<"-", "x", "y", "z">>),
     JStr(S_price),
     JStr(S_price \o <<"-">> \o S_asc \o <<"-", "x">>)}

\* Requests that exercise the predicate: every combination of the filter
\* groups, no sort.
FilterInputs ==
    [brandIds : BrandIdsInputs, categoryIds : CategoryIdsInputs, gender : GenderInputs,
     priceRangeTo : PriceRangeToInputs, discount : {JUndef, JStr(S_5_10)},
     occasions : OccasionsInputs, sortBy : {JUndef}]

\* Requests that exercise the parsing of the discount range.
DiscountRangeInputs ==
    [brandIds : {<<>>}, categoryIds : {<<>>, <<1>>}, gender : {JUndef},
     priceRangeTo : {JUndef}, discount : DiscountInputs \ {JUndef},
     occasions : OccasionsInputs, sortBy : {JUndef}]

\* Requests that exercise the sort, alone and on top of a join.
SortInputs ==
    [brandIds : {<<>>}, categoryIds : {<<>>, <<1, 2>>}, gender : {JUndef},
     priceRangeTo : {JUndef}, discount : {JUndef},
     occasions : {<<>>}, sortBy : SortByInputs \ {JUndef}]

NoCall == [op |-> "none"]

QueryInit ==
    /\ build \in {"productActions.ts", "part_000"}
    /\ \E n \in ProductIds :
        LET ids == 1..n
        IN
          /\ products = {SampleRow(i) : i \in ids}
          /\ product_categories \in SUBSET [product_id : ids, category_id : CategoryIds]
    /\ reviews = {}
    /\ comments = {}
    /\ foreign_key_checks = 1
    /\ nextId = MaxProducts + 1
    /\ ret = NoCall

FilterRequest ==
    /\ ret = NoCall
    /\ \E filters \in FilterInputs :
          LET run == RunQueries(filters)
          IN \E pageNo \in 1..MaxPageNo, pageSize \in 1..MaxPageSize :
                getProducts(pageNo, pageSize, filters, run)

DiscountRequest ==
    /\ ret = NoCall
    /\ \E filters \in DiscountRangeInputs :
          LET run == RunQueries(filters)
          IN \E pageNo \in 1..MaxPageNo, pageSize \in 1..MaxPageSize :
                getProducts(pageNo, pageSize, filters, run)

SortRequest ==
    /\ ret = NoCall
    /\ \E filters \in SortInputs :
          LET run == RunQueries(filters)
          IN \E pageNo \in 1..MaxPageNo, pageSize \in 1..MaxPageSize :
                getProducts(pageNo, pageSize, filters, run)

\* The caller takes the result; the next request starts from there.
Return ==
    /\ ret # NoCall
    /\ ret' = NoCall
    /\ UNCHANGED <<build, products, product_categories, reviews, comments,
                   foreign_key_checks, nextId>>

QueryNext == FilterRequest \/ DiscountRequest \/ SortRequest \/ Return

SpecQuery == QueryInit /\ [][QueryNext]_vars

-----------------------------------------------------------------------------
(* Claims about getProducts, checked under SpecQuery *)

Called == ret.op = "getProducts"

\* The products some row of the query's FROM clause of which passes its WHERE.
Matching(q) ==
    LET from == FromRows(q)
    IN {p \in products : \E jr \in from : jr.p = p /\ EvalWhere(q.where, jr)}

PageIds == {ret.products[i].id : i \in 1..Len(ret.products)}

\* C1: count is the number of distinct products the same query fetches
\* without pagination, and lastPage is ceil(count / pageSize).
C1_CountAndLastPage ==
    Called =>
        LET q == baseQuery(build, ret.filters)
            matching == Matching(q)
            unpaginated == SelectDistinct(q, Filtered(q))
        IN /\ ret.count = Cardinality(matching)
           /\ \A all \in unpaginated :
                 /\ Len(all) = ret.count
                 /\ {all[i] : i \in 1..Len(all)} = matching
           /\ ret.lastPage * ret.pageSize >= ret.count
           /\ (ret.lastPage - 1) * ret.pageSize < ret.count

\* C1 witness: a category filter under which a product has two rows in the
\* join, and a count that needs two pages.
C1_Witness ==
    /\ Called
    /\ Len(ret.filters.categoryIds) = 2
    /\ \E p \in products : Cardinality(LinksOf(p)) = 2
    /\ ret.count = 2 /\ ret.pageSize = 1 /\ ret.lastPage = 2

\* C3: with a category filter no product is twice in the page, and count
\* counts each product once: with the category filter alone, count is the
\* number of products linked to at least one of the given categories.
C3_NoDuplicates ==
    (Called /\ Len(ret.filters.categoryIds) > 0) =>
        /\ \A i, j \in 1..Len(ret.products) :
              i # j => ret.products[i].id # ret.products[j].id
        /\ ret.count <= Cardinality(products)
        /\ Cardinality(PageIds) = ret.numOfResultsOnCurPage
        /\ (/\ ret.filters.brandIds = <<>> /\ ret.filters.occasions = <<>>
            /\ ret.filters.gender = JUndef /\ ret.filters.priceRangeTo = JUndef
            /\ ret.filters.discount = JUndef)
           => ret.count = Cardinality({p \in products :
                            \E pc \in LinksOf(p) :
                               \E i \in 1..Len(ret.filters.categoryIds) :
                                  ret.filters.categoryIds[i] = pc.category_id})

\* C3 witness: two products, each linked to both categories of the filter,
\* both on the page.
C3_Witness ==
    /\ Called
    /\ ret.filters.categoryIds = <<1, 2>>
    /\ Cardinality({p \in products : Cardinality(LinksOf(p)) = 2}) >= 2
    /\ ret.count = 2 /\ Len(ret.products) = 2

\* The filter groups as the specification reads them: one group per
\* supplied filter, all of them required, any value of a group enough.
SatisfiesGroups(p, filters) ==
    /\ (filters.brandIds # <<>>) =>
          \E i \in 1..Len(filters.brandIds) : BrandListContains(p.brands, filters.brandIds[i])
    /\ (filters.categoryIds # <<>>) =>
          \E pc \in LinksOf(p) :
             \E i \in 1..Len(filters.categoryIds) : filters.categoryIds[i] = pc.category_id
    /\ Truthy(filters.gender) => p.gender = filters.gender.s
    /\ Truthy(filters.priceRangeTo) => p.price <= filters.priceRangeTo.n
    /\ (filters.discount = JStr(S_5_10)) => (p.discount >= 5 /\ p.discount <= 10)
    /\ (filters.occasions # <<>>) =>
          \E i \in 1..Len(filters.occasions) : FIND_IN_SET(filters.occasions[i], p.occasion)

\* C2 (as claimed): a product is returned and counted exactly when it
\* satisfies every supplied filter group.
C2_ConjunctionOfGroups ==
    (Called /\ ret.filters.discount \in {JUndef, JStr(S_5_10)}) =>
        /\ ret.count = Cardinality({p \in products : SatisfiesGroups(p, ret.filters)})
        /\ \A i \in 1..Len(ret.products) : SatisfiesGroups(ret.products[i], ret.filters)

\* A part of "min-max" that is a number as the specification reads it: it
\* is there, it is not empty, and it is made of digits.
ValidNumberPart(parts, i) ==
    /\ i <= Len(parts)
    /\ parts[i] # <<>>
    /\ \A k \in 1..Len(parts[i]) : IsDigit(parts[i][k])

\* C5 (as claimed): a discount whose two parts are not both valid numbers,
\* and a sortBy whose column is not allowed, change nothing; a discount
\* whose parts are both valid bounds the discount of every returned product.
\* Stated for requests without brand and occasion filters.
C5_MalformedIgnored ==
    (Called /\ ret.filters.brandIds = <<>> /\ ret.filters.occasions = <<>>) =>
        /\ Truthy(ret.filters.discount) =>
              LET parts == split(ret.filters.discount.s, "-")
              IN IF ValidNumberPart(parts, 1) /\ ValidNumberPart(parts, 2)
                 THEN \A i \in 1..Len(ret.products) :
                         /\ ret.products[i].discount >= DecimalValue(parts[1], 0)
                         /\ ret.products[i].discount <= DecimalValue(parts[2], 0)
                 ELSE /\ baseQuery(build, ret.filters)
                            = baseQuery(build, [ret.filters EXCEPT !.discount = JUndef])
                      /\ ret.count = CountDistinctId(Filtered(
                            baseQuery(build, [ret.filters EXCEPT !.discount = JUndef])))
        /\ (Truthy(ret.filters.sortBy)
              /\ ~includes(validColumns, At(split(ret.filters.sortBy.s, "-"), 1))) =>
              baseQuery(build, ret.filters)
                  = baseQuery(build, [ret.filters EXCEPT !.sortBy = JUndef])

\* The page is monotone in a column, in a direction.
Monotone(page, column, order) ==
    \A i \in 1..(Len(page) - 1) :
        IF order = S_asc
        THEN ColumnOf(page[i], column) <= ColumnOf(page[i + 1], column)
        ELSE ColumnOf(page[i], column) >= ColumnOf(page[i + 1], column)

AllowedColumn(s) == s \in {S_price, S_created_at, S_rating}

\* C6 (as claimed): the rows are ordered exactly when sortBy is
\* "column-direction" with an allowed column and a direction that is asc or
\* desc in any letter case.
C6_SortIgnoringCase ==
    (Called /\ Truthy(ret.filters.sortBy)) =>
        LET parts == split(ret.filters.sortBy.s, "-")
            claimed == /\ Len(parts) = 2
                       /\ AllowedColumn(parts[1])
                       /\ toLowerCase(parts[2]) \in {S_asc, S_desc}
        IN /\ claimed <=> (baseQuery(build, ret.filters).orderBy # NoOrder)
           /\ claimed => Monotone(ret.products, parts[1], toLowerCase(parts[2]))

\* C6 (amended): the rows are ordered exactly when the first two parts of
\* sortBy, split at "-", are an allowed column and the exact text asc or
\* desc; then the page is monotone in that column in that direction;
\* otherwise the query carries no ORDER BY, and a result is returned all the
\* same.
C6_SortExactCase ==
    Called =>
        LET s == ret.filters.sortBy
            parts == IF s.t = "string" THEN split(s.s, "-") ELSE <<>>
            applies == /\ Len(parts) >= 2
                       /\ AllowedColumn(parts[1])
                       /\ parts[2] \in {S_asc, S_desc}
        IN /\ applies <=> (baseQuery(build, ret.filters).orderBy # NoOrder)
           /\ applies => Monotone(ret.products, parts[1], parts[2])
           /\ ret.numOfResultsOnCurPage = Len(ret.products)

\* C6 witness: a page of two products of different prices, sorted by
\* price-desc.
C6_Witness ==
    /\ Called
    /\ ret.filters.sortBy = JStr(S_price \o <<"-">> \o S_desc)
    /\ Len(ret.products) = 2
    /\ ret.products[1].price > ret.products[2].price

-----------------------------------------------------------------------------
(* The write operations: deleteProduct, editProduct, addProduct *)

\* The store as one value, handed from one statement to the next.
Store == [products |-> products, product_categories |-> product_categories,
          reviews |-> reviews, comments |-> comments,
          foreign_key_checks |-> foreign_key_checks, nextId |-> nextId]

\* An array field of the submitted value: absent, or the list of the .value
\* of its elements.
NoArray == [present |-> FALSE, items |-> <<>>]
Array(items) == [present |-> TRUE, items |-> items]

RECURSIVE join(_, _)
join(items, sep) ==
    IF items = <<>> THEN <<>>
    ELSE IF Len(items) = 1 THEN items[1]
    ELSE items[1] \o <<sep>> \o join(Tail(items), sep)

Unset == [set |-> FALSE, v |-> <<>>]
SetTo(v) == [set |-> TRUE, v |-> v]

\* value.discount.toString(), value.old_price.toString() and
\* value.rating.toString() throw a TypeError on undefined.
ConversionThrows(value) ==
    \/ value.discount.t = "undefined"
    \/ value.old_price.t = "undefined"
    \/ value.rating.t = "undefined"

\* Mutant: price is taken from the submitted price.
PriceFromPrice(value) == Number(toString(value.price)).n

\* updateData.price / insertData.price = Number(value.old_price.toString())
PriceColumn(value) == Number(toString(value.old_price)).n

\* updateData of editProduct and insertData of addProduct: the same mapping.
updateData(value) ==
    [name |-> IF Truthy(value.name) THEN SetTo(value.name.s) ELSE Unset,
     brands |-> IF value.brands.present THEN SetTo(value.brands.items) ELSE Unset,
     occasion |-> IF value.occasion.present
                  THEN SetTo(join(value.occasion.items, ",")) ELSE Unset,
     gender |-> IF Truthy(value.gender) THEN SetTo(value.gender.s) ELSE Unset,
     discount |-> Number(toString(value.discount)).n,
     old_price |-> Number(toString(value.old_price)).n,
     price |-> PriceColumn(value),
     rating |-> Number(toString(value.rating)).n]

\* UPDATE products SET updateData WHERE id = productId, on one row.
ApplyUpdate(row, data) ==
    [row EXCEPT !.name = IF data.name.set THEN data.name.v ELSE @,
                !.brands = IF data.brands.set THEN data.brands.v ELSE @,
                !.occasion = IF data.occasion.set THEN data.occasion.v ELSE @,
                !.gender = IF data.gender.set THEN data.gender.v ELSE @,
                !.discount = data.discount,
                !.old_price = data.old_price,
                !.price = data.price,
                !.rating = data.rating]

\* The row INSERT INTO products VALUES insertData creates: the columns not
\* given are empty, id is the next AUTO_INCREMENT value.
NewRow(id, data) ==
    ApplyUpdate([id |-> id, name |-> <<>>, brands |-> <<>>, occasion |-> <<>>,
                 gender |-> <<>>, price |-> 0, old_price |-> 0, discount |-> 0,
                 rating |-> 0, created_at |-> id], data)

\* inserts: one row of product_categories per submitted category id.
inserts(productId, value) ==
    {[product_id |-> productId, category_id |-> value.categories.items[i]] :
        i \in 1..Len(value.categories.items)}

\* Mutant: the existing links are not deleted before the new ones go in.
EditStepsKeepingLinks(value) ==
    <<"updateProducts">>
    \o (IF value.categories.present /\ Len(value.categories.items) > 0
        THEN <<"insertCategories">> ELSE <<>>)
    \o <<"revalidatePath">>

\* The statements editProduct runs for a value, in order.
EditSteps(value) ==
    <<"updateProducts">>
    \o (IF value.categories.present
        THEN <<"deleteCategories">>
             \o (IF Len(value.categories.items) > 0 THEN <<"insertCategories">> ELSE <<>>)
        ELSE <<>>)
    \o <<"revalidatePath">>

\* The statements addProduct runs for a value, in order. checkInsertId is
\* the test of insertResult[0]?.insertId, which throws when it is missing.
AddSteps(value) ==
    <<"insertProducts", "checkInsertId">>
    \o (IF value.categories.present /\ Len(value.categories.items) > 0
        THEN <<"insertCategories">> ELSE <<>>)
    \o <<"revalidatePath">>

\* The statements deleteProduct runs, in order.
DeleteSteps ==
    <<"disableForeignKeyChecks", "deleteCategories", "deleteReviews", "deleteComments",
      "deleteProducts", "enableForeignKeyChecks", "revalidatePath">>

\* What one completed statement does to the store.
ApplyStep(db, step, productId, value) ==
    CASE step = "disableForeignKeyChecks" -> [db EXCEPT !.foreign_key_checks = 0]
      [] step = "enableForeignKeyChecks" -> [db EXCEPT !.foreign_key_checks = 1]
      [] step = "deleteCategories" ->
            [db EXCEPT !.product_categories = {pc \in @ : pc.product_id # productId}]
      [] step = "deleteReviews" ->
            [db EXCEPT !.reviews = {r \in @ : r.product_id # productId}]
      [] step = "deleteComments" ->
            [db EXCEPT !.comments = {c \in @ : c.product_id # productId}]
      [] step = "deleteProducts" ->
            [db EXCEPT !.products = {p \in @ : p.id # productId}]
      [] step = "updateProducts" ->
            [db EXCEPT !.products = {IF p.id = productId
                                     THEN ApplyUpdate(p, updateData(value)) ELSE p :
                                     p \in @}]
      [] step = "insertProducts" ->
            [db EXCEPT !.products = @ \cup {NewRow(db.nextId, updateData(value))},
                       !.nextId = @ + 1]
      [] step = "insertCategories" ->
            [db EXCEPT !.product_categories = @ \cup inserts(productId, value)]
      [] OTHER -> db    \* checkInsertId, revalidatePath: no change of the store

\* The store after the first n of the steps.
RECURSIVE RunSteps(_, _, _, _, _)
RunSteps(db, steps, n, productId, value) ==
    IF n = 0 THEN db
    ELSE ApplyStep(RunSteps(db, steps, n - 1, productId, value), steps[n], productId, value)

\* Mutant: the catch block rethrows, as the one of getProducts does.
CatchRethrows == "raised"

\* catch (error) { return { error: ... } }
Catch == "error"

\* try { steps } catch: run the steps up to the one that throws, if any
\* (failAt = 0: none throws), and return. A statement that throws changes
\* nothing itself; what the statements before it did stays.
RunTry(op, productId, value, steps, failAt) ==
    LET n == IF failAt = 0 THEN Len(steps) ELSE failAt - 1
        db == RunSteps(Store, steps, n, productId, value)
    IN /\ products' = db.products
       /\ product_categories' = db.product_categories
       /\ reviews' = db.reviews
       /\ comments' = db.comments
       /\ foreign_key_checks' = db.foreign_key_checks
       /\ nextId' = db.nextId
       /\ ret' = [op |-> op, productId |-> productId, value |-> value,
                  done |-> SubSeq(steps, 1, n),
                  threw |-> IF failAt = 0 THEN "none" ELSE steps[failAt],
                  result |-> IF failAt = 0 THEN "success" ELSE Catch]
       /\ UNCHANGED build

\* A conversion of an input field throws before any statement runs.
ThrowInConversion(op, productId, value) ==
    /\ ret' = [op |-> op, productId |-> productId, value |-> value,
               done |-> <<>>, threw |-> "convert", result |-> Catch]
    /\ UNCHANGED <<build, products, product_categories, reviews, comments,
                   foreign_key_checks, nextId>>

NoValue == [name |-> JUndef, brands |-> NoArray, occasion |-> NoArray, gender |-> JUndef,
            discount |-> JUndef, old_price |-> JUndef, price |-> JUndef,
            rating |-> JUndef, categories |-> NoArray]

deleteProduct(productId, failAt) ==
    RunTry("deleteProduct", productId, NoValue, DeleteSteps, failAt)

editProduct(productId, value, failAt) ==
    IF ConversionThrows(value)
    THEN failAt = 0 /\ ThrowInConversion("editProduct", productId, value)
    ELSE failAt <= Len(EditSteps(value))
         /\ RunTry("editProduct", productId, value, EditSteps(value), failAt)

addProduct(value, failAt) ==
    /\ nextId <= MaxProducts
    /\ IF ConversionThrows(value)
       THEN failAt = 0 /\ ThrowInConversion("addProduct", nextId, value)
       ELSE failAt <= Len(AddSteps(value))
            /\ RunTry("addProduct", nextId, value, AddSteps(value), failAt)

-----------------------------------------------------------------------------
(* The values submitted to the write operations, and the seeded store *)

S_30 == <<"3", "0">>

FullValue ==
    [name |-> JStr(<<"m">>), brands |-> Array(<<3, 7>>),
     occasion |-> Array(<<<<"a">>, <<"b">>>>), gender |-> JStr(S_women),
     discount |-> JNum(5), old_price |-> JNum(10), price |-> JNum(10),
     rating |-> JNum(3), categories |-> Array(<<1, 2>>)]

\* The full value; the same with another price; the old price given as
\* text and no categories; an empty and a one-element list of categories;
\* and a value without a discount, the conversion of which throws.
ValueInputs ==
    {FullValue,
     [FullValue EXCEPT !.price = JNum(99)],
     [FullValue EXCEPT !.old_price = JStr(S_30), !.price = JNum(99),
                       !.categories = NoArray],
     [FullValue EXCEPT !.categories = Array(<<>>)],
     [FullValue EXCEPT !.categories = Array(<<2>>)],
     [FullValue EXCEPT !.discount = JUndef]}

\* The longest sequence of statements (that of deleteProduct).
MaxSteps == Len(DeleteSteps)

WriteInit ==
    /\ build = "part_000"
    /\ products = {SampleRow(1)}
    /\ product_categories \in SUBSET [product_id : {1}, category_id : CategoryIds]
    /\ reviews = [id : 1..MaxReviews, product_id : {1}]
    /\ comments = [id : 1..MaxReviews, product_id : {1}]
    /\ foreign_key_checks = 1
    /\ nextId = 2
    /\ ret = NoCall

DeleteRequest ==
    /\ ret = NoCall
    /\ \E productId \in ProductIds, failAt \in 0..Len(DeleteSteps) :
          deleteProduct(productId, failAt)

EditRequest ==
    /\ ret = NoCall
    /\ \E productId \in ProductIds, value \in ValueInputs, failAt \in 0..MaxSteps :
          editProduct(productId, value, failAt)

AddRequest ==
    /\ ret = NoCall
    /\ \E value \in ValueInputs, failAt \in 0..MaxSteps :
          addProduct(value, failAt)

Next == DeleteRequest \/ EditRequest \/ AddRequest \/ Return

Spec == WriteInit /\ [][Next]_vars

-----------------------------------------------------------------------------
(* Claims about the write operations, checked under Spec *)

CategoryLinks(id) == {pc \in product_categories : pc.product_id = id}
ReviewRows(id) == {r \in reviews : r.product_id = id}
CommentRows(id) == {c \in comments : c.product_id = id}
ProductRows(id) == {p \in products : p.id = id}

IsWrite == ret.op \in {"deleteProduct", "editProduct", "addProduct"}

StepsOfCall ==
    CASE ret.op = "deleteProduct" -> DeleteSteps
      [] ret.op = "editProduct" -> EditSteps(ret.value)
      [] ret.op = "addProduct" -> AddSteps(ret.value)

SubmittedCategories(value) ==
    {value.categories.items[i] : i \in 1..Len(value.categories.items)}

\* C4 (as claimed): deleteProduct of a product that has category links,
\* reviews and comments removes all four row sets of the product or leaves
\* all four untouched, whichever statement fails.
C4_DeleteAllOrNothing ==
    [][\A id \in ProductIds :
        (/\ ret = NoCall
         /\ ret'.op = "deleteProduct"
         /\ ret'.productId = id
         /\ CategoryLinks(id) # {}
         /\ ReviewRows(id) # {}
         /\ CommentRows(id) # {}
         /\ ProductRows(id) # {})
        => \/ /\ CategoryLinks(id)' = {}
              /\ ReviewRows(id)' = {}
              /\ CommentRows(id)' = {}
              /\ ProductRows(id)' = {}
           \/ /\ CategoryLinks(id)' = CategoryLinks(id)
              /\ ReviewRows(id)' = ReviewRows(id)
              /\ CommentRows(id)' = CommentRows(id)
              /\ ProductRows(id)' = ProductRows(id)]_vars

\* C9 (as claimed): when deleteProduct has returned, foreign_key_checks is
\* enabled, on the success path and on every error path.
C9_ForeignKeyChecksRestored ==
    (ret.op = "deleteProduct") => foreign_key_checks = 1

\* C7: a write operation returns {message: "success"} or {error: ...} and
\* never raises; it returns success only when no statement threw and every
\* statement of its sequence, the cache invalidation last, has completed,
\* and then the store shows what the statements did.
C7_WritesNeverRaise ==
    IsWrite =>
        /\ ret.result \in {"success", "error"}
        /\ (ret.threw # "none") => ret.result = "error"
        /\ (ret.result = "success") =>
              /\ ret.threw = "none"
              /\ ret.done = StepsOfCall
              /\ ret.done[Len(ret.done)] = "revalidatePath"
              /\ (ret.op = "deleteProduct") =>
                    /\ ProductRows(ret.productId) = {}
                    /\ CategoryLinks(ret.productId) = {}
                    /\ ReviewRows(ret.productId) = {}
                    /\ CommentRows(ret.productId) = {}
              /\ (ret.op = "addProduct") =>
                    /\ ProductRows(ret.productId) # {}
                    /\ SubmittedCategories(ret.value)
                           \subseteq {pc.category_id : pc \in CategoryLinks(ret.productId)}

\* C7 witness: the cache invalidation of an editProduct threw after every
\* statement had run, and the call returned an error.
C7_Witness ==
    /\ ret.op = "editProduct"
    /\ ret.threw = "revalidatePath"
    /\ ret.result = "error"
    /\ Len(ret.done) = 3

\* C8 (as claimed): after every editProduct that returns success, the
\* category links of the product are exactly the submitted category ids.
C8_LinksReplacedOnEveryUpdate ==
    (ret.op = "editProduct" /\ ret.result = "success") =>
        {pc.category_id : pc \in CategoryLinks(ret.productId)}
            = SubmittedCategories(ret.value)

\* C8 (amended): after an editProduct that returns success and whose value
\* carries a categories array, the category links of the product are
\* exactly the submitted category ids; without a categories array they are
\* what they were; the links of every other product are unchanged.
C8_LinksReplacedWhenSubmitted ==
    [][\A id \in ProductIds :
        (/\ ret = NoCall
         /\ ret'.op = "editProduct"
         /\ ret'.result = "success"
         /\ ret'.productId = id)
        => /\ ret'.value.categories.present =>
                 {pc.category_id : pc \in CategoryLinks(id)'}
                     = SubmittedCategories(ret'.value)
           /\ ~ret'.value.categories.present =>
                 CategoryLinks(id)' = CategoryLinks(id)
           /\ \A other \in ProductIds \ {id} :
                 CategoryLinks(other)' = CategoryLinks(other)]_vars

\* C8 witness: an update that submitted category 2 alone succeeded on an
\* existing product, whose links are now that one, while another product
\* has links of its own.
C8_Witness ==
    /\ ret.op = "editProduct" /\ ret.result = "success"
    /\ ret.value.categories = Array(<<2>>)
    /\ ProductRows(ret.productId) # {}
    /\ {pc.category_id : pc \in CategoryLinks(ret.productId)} = {2}
    /\ \E id \in ProductIds \ {ret.productId} : Cardinality(CategoryLinks(id)) = 2

\* The number a submitted field stands for.
SubmittedNumber(x) == IF x.t = "number" THEN x.n ELSE DecimalValue(x.s, 0)

\* C10: after a successful addProduct or editProduct the stored price and
\* the stored old_price both are the submitted old_price, and the columns
\* written are the same whatever price was submitted.
C10_PriceIsOldPrice ==
    (ret.op \in {"addProduct", "editProduct"} /\ ret.result = "success") =>
        /\ \A p \in ProductRows(ret.productId) :
              /\ p.price = SubmittedNumber(ret.value.old_price)
              /\ p.old_price = SubmittedNumber(ret.value.old_price)
        /\ \A price \in {JNum(10), JNum(99), JNum(1)} :
              updateData([ret.value EXCEPT !.price = price]) = updateData(ret.value)

\* C10 witness: a product was added with old_price 10 and price 99, and is
\* stored with price 10.
C10_Witness ==
    /\ ret.op = "addProduct" /\ ret.result = "success"
    /\ ret.value.price = JNum(99) /\ ret.value.old_price = JNum(10)
    /\ \E p \in ProductRows(ret.productId) : p.price = 10 /\ p.old_price = 10

====
